---- MODULE Spec2Model ----
(***************************************************************************)
(* A model of scripts/pr-metrics.mjs: the business-hours clock             *)
(* (businessMinutesBetween), the threshold scorer (scoreByThresholds and   *)
(* the fixed tables), the commit accumulation loop, the aggregator         *)
(* (complexity, M1..M4, maturity with the M5 penalty) and the run of the   *)
(* script as a sequence of fetches ending in the report.                   *)
(*                                                                         *)
(* Numbers.  Instants are milliseconds since the epoch (1970-01-01 is a    *)
(* Thursday).  Real-valued quantities are exact rationals: a metric value  *)
(* is a record [n, d] standing for n/d, a table bound is an integer count  *)
(* of 1/Scale, weights are integer hundredths, and category scores and     *)
(* maturity are integers in units of 1/Scale.                              *)
(***************************************************************************)
EXTENDS Integers, Sequences, FiniteSets, TLC

VARIABLES
    \* businessMinutesBetween(startUtc, endUtc, tz) and its environment
    startUtc, endUtc, hours, hourCycle, startInWork, cur, total, minutes, cpc,
    \* scoreByThresholds(value, thresholdsAsc) and what it returned
    value, thresholdsAsc, score, spc,
    \* the run of the script: environment, position, fetched data, the commit
    \* loop's accumulators and averages, and what was written and posted
    env, pc, pr, commits, listNo, pages, fetched, failed,
    ci, sumFiles, sumLines, countForAverages, commitsStandardOk,
    avgFilesPerCommit, avgLinesPerCommit, commitStandardPct,
    reportWritten, commentPosted,
    \* the aggregator: configuration and pull request, the primitive scores,
    \* complexity, the categories and maturity
    isFunctional, prState, isMerged, apc,
    s_commitsCount, s_avgFiles, s_avgLines, s_commitStandard, s_linesModified,
    complexity, s_closeTime, s_observations, s_approvals, s_declined, s_branch,
    M1, M2, M3, M4, ageSec, m5Penalty, maturity

clockVars == <<startUtc, endUtc, hours, hourCycle, startInWork, cur, total, minutes, cpc>>

scoreVars == <<value, thresholdsAsc, score, spc>>

runVars ==
    <<env, pc, pr, commits, listNo, pages, fetched, failed,
      ci, sumFiles, sumLines, countForAverages, commitsStandardOk,
      avgFilesPerCommit, avgLinesPerCommit, commitStandardPct,
      reportWritten, commentPosted>>

aggVars ==
    <<isFunctional, prState, isMerged, apc,
      s_commitsCount, s_avgFiles, s_avgLines, s_commitStandard, s_linesModified,
      complexity, s_closeTime, s_observations, s_approvals, s_declined, s_branch,
      M1, M2, M3, M4, ageSec, m5Penalty, maturity>>

vars == <<clockVars, scoreVars, runVars, aggVars>>

\* what each part of the script leaves alone
notClockVars == <<scoreVars, runVars, aggVars>>
notScoreVars == <<clockVars, runVars, aggVars>>
notRunVars == <<clockVars, scoreVars, aggVars>>
notAggVars == <<clockVars, scoreVars, runVars>>

(***************************************************************************)
(* Each specification below runs one part of the script; the parts it does *)
(* not run stay as these predicates leave them.                            *)
(***************************************************************************)
ScoreIdle ==
    /\ value = [n |-> 0, d |-> 1]
    /\ thresholdsAsc = <<>>
    /\ score = 0
    /\ spc = "idle"

ClockIdle ==
    /\ startUtc = 0
    /\ endUtc = 0
    /\ hours = <<>>
    /\ hourCycle = "h23"
    /\ startInWork = FALSE
    /\ cur = 0
    /\ total = 0
    /\ minutes = 0
    /\ cpc = "idle"

RunIdle ==
    /\ env = <<>>
    /\ pc = "idle"
    /\ pr = "none"
    /\ commits = <<>>
    /\ listNo = 0
    /\ pages = 0
    /\ fetched = {}
    /\ failed = "none"
    /\ ci = 0
    /\ sumFiles = 0
    /\ sumLines = 0
    /\ countForAverages = 0
    /\ commitsStandardOk = 0
    /\ avgFilesPerCommit = [n |-> 0, d |-> 1]
    /\ avgLinesPerCommit = [n |-> 0, d |-> 1]
    /\ commitStandardPct = [n |-> 0, d |-> 1]
    /\ reportWritten = FALSE
    /\ commentPosted = FALSE

AggIdle ==
    /\ isFunctional = TRUE
    /\ prState = "none"
    /\ isMerged = FALSE
    /\ apc = "idle"
    /\ s_commitsCount = 0
    /\ s_avgFiles = 0
    /\ s_avgLines = 0
    /\ s_commitStandard = 0
    /\ s_linesModified = 0
    /\ complexity = 0
    /\ s_closeTime = 0
    /\ s_observations = 0
    /\ s_approvals = 0
    /\ s_declined = 0
    /\ s_branch = 0
    /\ M1 = 0
    /\ M2 = 0
    /\ M3 = 0
    /\ M4 = 0
    /\ ageSec = 0
    /\ m5Penalty = 0
    /\ maturity = 0

(***************************************************************************)
(* Bounds of the model.                                                    *)
(***************************************************************************)
\* local calendar days the instants are drawn from, counted from Thursday
Days == 5
\* longest range table the scorer is probed with, and largest bound in one
MaxLen == 2
MaxBound == 1
\* commits of the pull request, commits one page of a list holds, and pages
\* one paginated fetch follows
MaxCommits == 3
PerPage == 1
MaxPages == 3

(***************************************************************************)
(* The threshold scorer.                                                   *)
(***************************************************************************)
\* table bounds are written to four decimals (1200.0001): units per 1
Scale == 10000

\* value >= b and value <= b for a value n/d and a bound of b/Scale, compared
\* whole part first so that no product leaves the range of the integers
AtLeast(v, b) ==
    \/ v.n \div v.d > b \div Scale
    \/ /\ v.n \div v.d = b \div Scale
       /\ (v.n % v.d) * Scale >= (b % Scale) * v.d

AtMost(v, b) ==
    \/ v.n \div v.d < b \div Scale
    \/ /\ v.n \div v.d = b \div Scale
       /\ (v.n % v.d) * Scale <= (b % Scale) * v.d

\* line 191 with a strict comparison
okMinStrict(t, v) == ("min" \notin DOMAIN t) \/ ~AtMost(v, t.min)

\* line 191: t.min === undefined || value >= t.min
okMin(t, v) == ("min" \notin DOMAIN t) \/ AtLeast(v, t.min)

\* line 192: t.max === undefined || value <= t.max
okMax(t, v) == ("max" \notin DOMAIN t) \/ AtMost(v, t.max)

\* lines 190-195 with a fallback of 0
RECURSIVE scoreFromFallbackZero(_, _, _)
scoreFromFallbackZero(v, T, i) ==
    IF i > Len(T) THEN 0
    ELSE IF okMin(T[i], v) /\ okMax(T[i], v) THEN T[i].score
    ELSE scoreFromFallbackZero(v, T, i + 1)

\* lines 190-195: the loop from range i on, and the fallback
RECURSIVE scoreFrom(_, _, _)
scoreFrom(v, T, i) ==
    IF i > Len(T) THEN 1
    ELSE IF okMin(T[i], v) /\ okMax(T[i], v) THEN T[i].score
    ELSE scoreFrom(v, T, i + 1)

scoreByThresholds(v, T) == scoreFrom(v, T, 1)

\* a bound written with decimals: whole + frac / Scale
Dec(whole, frac) == whole * Scale + frac

\* a ? (n / a) : 0, as an exact fraction
Ratio(n, a) == IF a # 0 THEN [n |-> n, d |-> a] ELSE [n |-> 0, d |-> 1]

\* an integer metric as a value
IntValue(k) == [n |-> k, d |-> 1]

\* lines 206-215
thresholdsCommitsCount ==
    << [min |-> Dec(8, 0), score |-> 1],
       [min |-> Dec(6, 0), max |-> Dec(7, 0), score |-> 2],
       [min |-> Dec(5, 0), max |-> Dec(5, 0), score |-> 3],
       [min |-> Dec(3, 0), max |-> Dec(4, 0), score |-> 4],
       [min |-> Dec(1, 0), max |-> Dec(2, 0), score |-> 5] >>

\* lines 216-235
thresholdsAvgFilesPerCommit(legacy) ==
    IF ~legacy
    THEN << [min |-> Dec(40, 0), score |-> 1],
            [min |-> Dec(30, 0), max |-> Dec(39, 9990), score |-> 2],
            [min |-> Dec(20, 0), max |-> Dec(29, 9990), score |-> 3],
            [min |-> Dec(15, 0), max |-> Dec(19, 9990), score |-> 4],
            [max |-> Dec(14, 9990), score |-> 5] >>
    ELSE << [min |-> Dec(60, 0), score |-> 1],
            [min |-> Dec(50, 0), max |-> Dec(59, 9990), score |-> 2],
            [min |-> Dec(40, 0), max |-> Dec(49, 9990), score |-> 3],
            [min |-> Dec(35, 0), max |-> Dec(39, 9990), score |-> 4],
            [max |-> Dec(34, 9990), score |-> 5] >>

\* lines 236-255
thresholdsAvgLinesPerCommit(legacy) ==
    IF ~legacy
    THEN << [min |-> Dec(350, 0), score |-> 1],
            [min |-> Dec(250, 0), max |-> Dec(349, 9990), score |-> 2],
            [min |-> Dec(150, 0), max |-> Dec(249, 9990), score |-> 3],
            [min |-> Dec(100, 0), max |-> Dec(149, 9990), score |-> 4],
            [max |-> Dec(99, 9990), score |-> 5] >>
    ELSE << [min |-> Dec(400, 0), score |-> 1],
            [min |-> Dec(300, 0), max |-> Dec(399, 9990), score |-> 2],
            [min |-> Dec(200, 0), max |-> Dec(299, 9990), score |-> 3],
            [min |-> Dec(150, 0), max |-> Dec(199, 9990), score |-> 4],
            [max |-> Dec(149, 9990), score |-> 5] >>

\* lines 256-275
thresholdsLinesModified(legacy) ==
    IF ~legacy
    THEN << [min |-> Dec(1200, 1), score |-> 1],
            [min |-> Dec(500, 1), max |-> Dec(1200, 0), score |-> 2],
            [min |-> Dec(300, 1), max |-> Dec(500, 0), score |-> 3],
            [min |-> Dec(50, 1), max |-> Dec(300, 0), score |-> 4],
            [max |-> Dec(50, 0), score |-> 5] >>
    ELSE << [min |-> Dec(1200, 1), score |-> 1],
            [min |-> Dec(700, 1), max |-> Dec(1200, 0), score |-> 2],
            [min |-> Dec(500, 1), max |-> Dec(700, 0), score |-> 3],
            [min |-> Dec(100, 1), max |-> Dec(500, 0), score |-> 4],
            [max |-> Dec(100, 0), score |-> 5] >>

\* lines 277-301
thresholdsCloseTimeHours(c) ==
    IF c > 3
    THEN << [min |-> Dec(32, 1), score |-> 1],
            [min |-> Dec(20, 1), max |-> Dec(32, 0), score |-> 2],
            [min |-> Dec(8, 1), max |-> Dec(20, 0), score |-> 3],
            [min |-> Dec(4, 1), max |-> Dec(8, 0), score |-> 4],
            [max |-> Dec(4, 0), score |-> 5] >>
    ELSE << [min |-> Dec(32, 1), score |-> 1],
            [max |-> Dec(0, 5000), score |-> 1],
            [min |-> Dec(20, 1), max |-> Dec(32, 0), score |-> 2],
            [min |-> Dec(0, 5001), max |-> Dec(1, 0), score |-> 2],
            [min |-> Dec(8, 1), max |-> Dec(20, 0), score |-> 3],
            [min |-> Dec(4, 1), max |-> Dec(8, 0), score |-> 4],
            [max |-> Dec(4, 0), score |-> 5] >>

\* lines 303-334
thresholdsObservations(c) ==
    IF c >= 1 /\ c < 3
    THEN << [max |-> Dec(0, 0), score |-> 1],
            [min |-> Dec(1, 0), max |-> Dec(1, 0), score |-> 2],
            [min |-> Dec(2, 0), max |-> Dec(5, 0), score |-> 3],
            [min |-> Dec(6, 0), max |-> Dec(10, 0), score |-> 4],
            [min |-> Dec(11, 0), score |-> 5] >>
    ELSE IF c >= 3 /\ c < 4
    THEN << [max |-> Dec(0, 0), score |-> 2],
            [min |-> Dec(1, 0), max |-> Dec(2, 0), score |-> 3],
            [min |-> Dec(3, 0), score |-> 4] >>
    ELSE IF c >= 4 /\ c < 5
    THEN << [max |-> Dec(0, 0), score |-> 3],
            [min |-> Dec(1, 0), score |-> 4],
            [min |-> Dec(2, 0), score |-> 5] >>
    ELSE << [max |-> Dec(0, 0), score |-> 4],
            [min |-> Dec(1, 0), score |-> 5] >>

\* The ranges the scorer is probed with: each bound absent or a whole number
\* up to MaxBound, any score; and the values: halves from -1/2 to MaxBound + 1/2.
ProbeRanges ==
    { [score |-> sc] : sc \in 1..5 }
    \cup { [min |-> a * Scale, score |-> sc] : a \in 0..MaxBound, sc \in 1..5 }
    \cup { [max |-> b * Scale, score |-> sc] : b \in 0..MaxBound, sc \in 1..5 }
    \cup { [min |-> a * Scale, max |-> b * Scale, score |-> sc] :
             a \in 0..MaxBound, b \in 0..MaxBound, sc \in 1..5 }

ProbeTables == UNION { [1..len -> ProbeRanges] : len \in 0..MaxLen }

ProbeValues == { [n |-> k, d |-> 2] : k \in (-1)..(2 * MaxBound + 1) }

ScoreInit ==
    /\ ClockIdle
    /\ RunIdle
    /\ AggIdle
    /\ value \in ProbeValues
    /\ thresholdsAsc \in ProbeTables
    /\ score = 0
    /\ spc = "call"

\* lines 188-196
Apply ==
    /\ spc = "call"
    /\ score' = scoreByThresholds(value, thresholdsAsc)
    /\ spc' = "done"
    /\ UNCHANGED <<value, thresholdsAsc>>
    /\ UNCHANGED notScoreVars

ScoreNext == Apply

SpecScore == ScoreInit /\ [][ScoreNext]_vars

\* what the description says of one range: both bounds, where present, admit
\* the value, bounds included
RangeAdmits(t, v) ==
    /\ ("min" \in DOMAIN t => t.min * v.d <= v.n * Scale)
    /\ ("max" \in DOMAIN t => v.n * Scale <= t.max * v.d)

AdmittingRanges == { i \in 1..Len(thresholdsAsc) : RangeAdmits(thresholdsAsc[i], value) }

\* C1: scoreByThresholds returns the score of the first range in declaration
\* order whose bounds admit the value, whatever later ranges admit it too, and
\* 1 when no range admits it.
C1_FirstAdmittingRangeWins ==
    spc = "done" =>
        IF AdmittingRanges = {}
        THEN score = 1
        ELSE \E i \in AdmittingRanges :
                /\ \A j \in AdmittingRanges : i <= j
                /\ score = thresholdsAsc[i].score

\* an earlier range admits the value and a later one with another score does too
C1_Witness ==
    /\ spc = "done"
    /\ Len(thresholdsAsc) = 2
    /\ AdmittingRanges = {1, 2}
    /\ thresholdsAsc[1].score = 4
    /\ thresholdsAsc[2].score = 2
    /\ score = 4

(***************************************************************************)
(* The business-hours clock.                                               *)
(***************************************************************************)
MsPerMinute == 60000
ChunkMs == 60 * 60 * 1000
MsPerDay == 24 * ChunkMs

\* TZ = "America/Santo_Domingo": UTC-04:00 all year, in minutes
TzOffsetMin == -240

\* Math.round(n / d) for d > 0: halves round toward +Infinity
MathRound(n, d) == (2 * n + d) \div (2 * d)

\* parseTimeHHMM("HH:MM") is the record of its two numbers.
parseTimeHHMM(hh, mm) == [hh |-> hh, mm |-> mm]

\* WORK_HOURS and MORNING_CUTOFF as parsed at start-up: the defaults
\* 09:00-18:00 / 07:30, a window that opens before the cutoff, and a
\* round-the-clock window.
Hours ==
    { [workStart |-> parseTimeHHMM(9, 0), workEnd |-> parseTimeHHMM(18, 0),
       morningCutoff |-> parseTimeHHMM(7, 30)],
      [workStart |-> parseTimeHHMM(6, 0), workEnd |-> parseTimeHHMM(18, 0),
       morningCutoff |-> parseTimeHHMM(7, 30)],
      [workStart |-> parseTimeHHMM(0, 0), workEnd |-> parseTimeHHMM(23, 59),
       morningCutoff |-> parseTimeHHMM(7, 30)] }

DefaultHours ==
    [workStart |-> parseTimeHHMM(9, 0), workEnd |-> parseTimeHHMM(18, 0),
     morningCutoff |-> parseTimeHHMM(7, 30)]

\* The hour cycle Intl.DateTimeFormat("en-US", {hour12: false}) resolves to.
\* ECMA-402 before its 2023 revision resolves hour12: false to "h24" for a
\* locale whose default cycle is h12 (en-US), so V8 of that time prints
\* midnight as hour 24; later engines resolve it to "h23".
HourCycles == {"h23", "h24"}

WeekdayNames == <<"Thu", "Fri", "Sat", "Sun", "Mon", "Tue", "Wed">>

\* local wall-clock milliseconds of an instant in TZ
LocalMs(date) == date + TzOffsetMin * MsPerMinute

toZonedParts(date, hc) ==
    LET local == LocalMs(date)
        h == (local % MsPerDay) \div ChunkMs
    IN  [weekday |-> WeekdayNames[((local \div MsPerDay) % 7) + 1],
         hour |-> IF hc = "h24" /\ h = 0 THEN 24 ELSE h,
         minute |-> (local % ChunkMs) \div MsPerMinute]

isWeekday(weekday) == weekday \in {"Mon", "Tue", "Wed", "Thu", "Fri"}

minutesSinceMidnight(h, m) == h * 60 + m

Max(a, b) == IF a >= b THEN a ELSE b
Min(a, b) == IF a <= b THEN a ELSE b

clamp(x, a, b) == Max(a, Min(b, x))

ws == minutesSinceMidnight(hours.workStart.hh, hours.workStart.mm)
we == minutesSinceMidnight(hours.workEnd.hh, hours.workEnd.mm)
cutoffMin == minutesSinceMidnight(hours.morningCutoff.hh, hours.morningCutoff.mm)

\* line 141
StartInWork(sp) ==
    /\ isWeekday(sp.weekday)
    /\ minutesSinceMidnight(sp.hour, sp.minute) >= ws
    /\ minutesSinceMidnight(sp.hour, sp.minute) <= we

\* line 142
endBeforeCutoffSameOrNext(ep) ==
    minutesSinceMidnight(ep.hour, ep.minute) <= cutoffMin

\* lines 171-172
effectiveStart == IF ~startInWork THEN Max(ws, cutoffMin) ELSE ws

\* lines 166-179 without the isWeekday test of line 166
SliceMinutesEveryDay(p, pNext) ==
    LET a == clamp(minutesSinceMidnight(p.hour, p.minute), effectiveStart, we)
        b == clamp(minutesSinceMidnight(pNext.hour, pNext.minute), effectiveStart, we)
    IN  IF b > a THEN b - a ELSE 0

\* lines 166-179: what one slice [cur, next] adds to total
SliceMinutes(p, pNext) ==
    IF isWeekday(p.weekday)
    THEN LET a == clamp(minutesSinceMidnight(p.hour, p.minute), effectiveStart, we)
             b == clamp(minutesSinceMidnight(pNext.hour, pNext.minute), effectiveStart, we)
         IN  IF b > a THEN b - a ELSE 0
    ELSE 0

\* Instants a pull request is created and closed at: on each of the Days
\* local days, these local times of day (minutes after midnight).
TimesOfDay == {30, 420, 450, 451, 525, 540, 600, 720, 1080, 1081, 1200, 1410}

Instants ==
    { (d * 24 * 60 + t - TzOffsetMin) * MsPerMinute : d \in 0..(Days - 1), t \in TimesOfDay }

ClockInit ==
    /\ ScoreIdle
    /\ RunIdle
    /\ AggIdle
    /\ startUtc \in Instants
    /\ endUtc \in Instants
    /\ hours \in Hours
    /\ hourCycle \in HourCycles
    /\ startInWork = FALSE
    /\ cur = 0
    /\ total = 0
    /\ minutes = 0
    /\ cpc = "call"

\* line 129, with the guard left out
SpanIsEmptyNever == FALSE

\* line 129
SpanIsEmpty == endUtc <= startUtc

\* lines 129-153: the early return, the carve-out return, or the start of the walk
Enter ==
    /\ cpc = "call"
    /\ IF SpanIsEmpty
       THEN /\ minutes' = 0
            /\ cpc' = "done"
            /\ UNCHANGED <<startInWork, cur, total>>
       ELSE LET sp == toZonedParts(startUtc, hourCycle)
                ep == toZonedParts(endUtc, hourCycle)
            IN  /\ startInWork' = StartInWork(sp)
                /\ IF ~StartInWork(sp) /\ endBeforeCutoffSameOrNext(ep)
                   THEN /\ minutes' = MathRound(endUtc - startUtc, MsPerMinute)
                        /\ cpc' = "done"
                        /\ UNCHANGED <<cur, total>>
                   ELSE /\ total' = 0
                        /\ cur' = startUtc
                        /\ cpc' = "walk"
                        /\ UNCHANGED minutes
    /\ UNCHANGED <<startUtc, endUtc, hours, hourCycle>>
    /\ UNCHANGED notClockVars

\* lines 155-182: one iteration of the while loop
WalkStep ==
    /\ cpc = "walk"
    /\ cur < endUtc
    /\ LET next == Min(endUtc, cur + ChunkMs)
       IN  /\ total' = total + SliceMinutes(toZonedParts(cur, hourCycle),
                                            toZonedParts(next, hourCycle))
           /\ cur' = next
    /\ UNCHANGED <<startUtc, endUtc, hours, hourCycle, startInWork, minutes, cpc>>
    /\ UNCHANGED notClockVars

\* line 184
Return ==
    /\ cpc = "walk"
    /\ ~(cur < endUtc)
    /\ minutes' = total
    /\ cpc' = "done"
    /\ UNCHANGED <<startUtc, endUtc, hours, hourCycle, startInWork, cur, total>>
    /\ UNCHANGED notClockVars

ClockNext == Enter \/ WalkStep \/ Return

SpecClock == ClockInit /\ [][ClockNext]_vars

\* the clock on an engine that prints midnight as hour 0
ClockInitH23 == ClockInit /\ hourCycle = "h23"

SpecClockH23 == ClockInitH23 /\ [][ClockNext]_vars

(***************************************************************************)
(* The clock's contract, in the terms of its description: local days and   *)
(* times of day as a calendar gives them, independent of toZonedParts.     *)
(***************************************************************************)
LocalDay(date) == LocalMs(date) \div MsPerDay
LocalMinuteOfDay(date) == (LocalMs(date) % MsPerDay) \div MsPerMinute
IsWorkDay(d) == WeekdayNames[(d % 7) + 1] \in {"Mon", "Tue", "Wed", "Thu", "Fri"}
ElapsedMinutes == (endUtc - startUtc) \div MsPerMinute

InsideWorkWindow(date) ==
    /\ IsWorkDay(LocalDay(date))
    /\ LocalMinuteOfDay(date) >= ws
    /\ LocalMinuteOfDay(date) <= we

CarveOutApplies ==
    /\ startUtc < endUtc
    /\ ~InsideWorkWindow(startUtc)
    /\ LocalMinuteOfDay(endUtc) <= cutoffMin

\* the part of the span on local day d, as minutes of that day, cut to [es, we]
DayOverlap(d, es) ==
    LET lo == Max(LocalMs(startUtc), d * MsPerDay) \div MsPerMinute - d * 24 * 60
        hi == Min(LocalMs(endUtc), (d + 1) * MsPerDay) \div MsPerMinute - d * 24 * 60
    IN  IF IsWorkDay(d) THEN Max(0, Min(hi, we) - Max(lo, es)) ELSE 0

RECURSIVE SumDayOverlap(_, _, _)
SumDayOverlap(d, last, es) ==
    IF d > last THEN 0 ELSE DayOverlap(d, es) + SumDayOverlap(d + 1, last, es)

WorkDayOverlapMinutes ==
    SumDayOverlap(LocalDay(startUtc), LocalDay(endUtc),
                  IF InsideWorkWindow(startUtc) THEN ws ELSE Max(ws, cutoffMin))

\* start and end on the Saturday and Sunday of one weekend
SameWeekend ==
    /\ ~IsWorkDay(LocalDay(startUtc))
    /\ ~IsWorkDay(LocalDay(endUtc))
    /\ LocalDay(endUtc) - LocalDay(startUtc) \in {0, 1}

\* C2: whenever start < end, the start instant is outside the work window and
\* the end instant's local time of day is at or before the morning cutoff,
\* businessMinutesBetween returns the full elapsed minutes end - start.
C2_CarveOutFullElapsed ==
    (cpc = "done" /\ CarveOutApplies) => minutes = ElapsedMinutes

\* C3: whenever start < end and the carve-out rule does not apply, the walk
\* returns the sum over the Monday-Friday local days of the span of the overlap
\* of the span's part on that day with [effectiveStart, workEnd].
C3_WalkIsWorkDayOverlap ==
    (cpc = "done" /\ startUtc < endUtc /\ ~CarveOutApplies)
        => minutes = WorkDayOverlapMinutes

\* C4 as stated: a span whose start and end lie within the same weekend
\* yields 0 business minutes.
C4_SameWeekendIsZero ==
    (cpc = "done" /\ startUtc < endUtc /\ SameWeekend) => minutes = 0

\* C4 as amended: in the hour-sliced walk a slice that starts on a Saturday
\* or Sunday adds nothing to the total, and a span within one weekend for
\* which the walk runs (the carve-out return is not taken) yields 0.
C4_WeekendSlicesAddNothing ==
    [][ /\ (cpc = "walk" /\ cpc' = "walk" /\ ~IsWorkDay(LocalDay(cur)))
            => total' = total
        /\ (cpc = "walk" /\ cpc' = "done" /\ SameWeekend) => minutes' = 0 ]_vars

C4_Witness ==
    /\ cpc = "done"
    /\ startUtc < endUtc
    /\ SameWeekend
    /\ cur = endUtc
    /\ LocalMinuteOfDay(startUtc) >= ws
    /\ LocalMinuteOfDay(endUtc) <= we
    /\ minutes = 0

\* C5: businessMinutesBetween never returns a negative number, and when
\* end <= start it returns 0 without taking the carve-out return or starting
\* the walk (cur and total are never set).
C5_NonNegativeAndEmptySpanZero ==
    /\ total >= 0
    /\ minutes >= 0
    /\ endUtc <= startUtc => (cpc # "walk" /\ cur = 0 /\ minutes = 0)

C5_Witness ==
    /\ cpc = "done"
    /\ endUtc < startUtc
    /\ ~InsideWorkWindow(startUtc)
    /\ LocalMinuteOfDay(endUtc) <= cutoffMin
    /\ minutes = 0

\* C12: under the default 09:00-18:00 window and 07:30 cutoff, when the start
\* instant is outside the work window and the end instant's local time of day
\* is after the cutoff, the minutes counted on each work day of the span start
\* at the cutoff: the result is the sum over the Monday-Friday local days of
\* the overlap of the span's part on that day with [cutoff, workEnd].
C12_CountsFromCutoff ==
    ( /\ cpc = "done"
      /\ hours = DefaultHours
      /\ startUtc < endUtc
      /\ ~InsideWorkWindow(startUtc)
      /\ LocalMinuteOfDay(endUtc) > cutoffMin )
        => minutes = SumDayOverlap(LocalDay(startUtc), LocalDay(endUtc), cutoffMin)

(***************************************************************************)
(* The aggregator: lines 464-556.  Weights are hundredths; weightedAvg,    *)
(* the categories and maturity are counts of 1/Scale.  Every weight list   *)
(* of the script sums to 100 hundredths, so the divisions are exact.       *)
(***************************************************************************)
SecPerDay == 24 * 60 * 60

\* lines 200-201: the sums of score * weight and of weight over items k..
RECURSIVE numFrom(_, _)
numFrom(items, k) ==
    IF k > Len(items) THEN 0
    ELSE items[k].score * items[k].weight + numFrom(items, k + 1)

RECURSIVE denFrom(_, _)
denFrom(items, k) ==
    IF k > Len(items) THEN 0 ELSE items[k].weight + denFrom(items, k + 1)

\* lines 199-203
weightedAvg(items) ==
    IF denFrom(items, 1) # 0
    THEN (numFrom(items, 1) * Scale) \div denFrom(items, 1)
    ELSE 0

\* lines 470-474
commitStandardScore(pct) ==
    IF pct.n * 100 >= 90 * pct.d THEN 5
    ELSE IF pct.n * 100 >= 75 * pct.d THEN 4
    ELSE IF pct.n * 100 >= 60 * pct.d THEN 3
    ELSE IF pct.n * 100 >= 40 * pct.d THEN 2
    ELSE 1

\* lines 480-492 with Math.floor for Math.round
complexityFloored(functional, cc, af, al, lm) ==
    IF ~functional THEN 5
    ELSE LET comp == weightedAvg(<< [score |-> cc, weight |-> 20],
                                    [score |-> af, weight |-> 25],
                                    [score |-> al, weight |-> 25],
                                    [score |-> lm, weight |-> 30] >>)
         IN  Min(5, Max(1, comp \div Scale))

\* lines 480-492
complexityOf(functional, cc, af, al, lm) ==
    IF ~functional THEN 5
    ELSE LET comp == weightedAvg(<< [score |-> cc, weight |-> 20],
                                    [score |-> af, weight |-> 25],
                                    [score |-> al, weight |-> 25],
                                    [score |-> lm, weight |-> 30] >>)
         IN  Min(5, Max(1, MathRound(comp, Scale)))

\* lines 507-511
approvalsScore(approvalsCount) ==
    IF approvalsCount > 2 THEN 5
    ELSE IF approvalsCount = 2 THEN 4
    ELSE IF approvalsCount = 1 THEN 3
    ELSE IF approvalsCount = 0 THEN 2
    ELSE 1

\* lines 421-423
declinedThisPr(state, merged) == IF state = "closed" /\ ~merged THEN 1 ELSE 0

\* line 514
declinedScore(declined) == IF declined = 0 THEN 5 ELSE 3

\* line 522
branchScore(branchOk) == IF branchOk THEN 5 ELSE 2

\* line 555 with the state test left out
m5PenaltyAnyState(state, age) == IF age > 7 * SecPerDay THEN Scale \div 2 ELSE 0

\* lines 554-555: age is Date.now() - createdAt, here in whole seconds
m5PenaltyOf(state, age) ==
    IF state = "open" /\ age > 7 * SecPerDay THEN Scale \div 2 ELSE 0

\* lines 548-552
maturitySum(m1, m2, m3, m4) == (m1 * 25 + m2 * 15 + m3 * 35 + m4 * 25) \div 100

\* The values a metric is scored at: every bound of its table, the value one
\* 1/Scale below it and one above it, and 0.
BoundsOf(T) ==
    { T[k].min : k \in { j \in 1..Len(T) : "min" \in DOMAIN T[j] } }
    \cup { T[k].max : k \in { j \in 1..Len(T) : "max" \in DOMAIN T[j] } }

ProbesOf(T) ==
    { [n |-> u, d |-> Scale] :
        u \in { b + e : b \in BoundsOf(T) \cup {0}, e \in {-1, 0, 1} } \cap Nat }

\* whole numbers at and next to the bounds of a table
IntProbesOf(T) ==
    { IntValue(k) :
        k \in { b \div Scale + e : b \in BoundsOf(T) \cup {0}, e \in {0, 1} } }

\* business minutes at and next to the bounds of the close-time table, as hours
HourProbesOf(T) ==
    { [n |-> m, d |-> 60] :
        m \in { (b * 60) \div Scale + e : b \in BoundsOf(T) \cup {0}, e \in {0, 1} } }

\* the commit counts of a pull request of up to MaxCommits commits, and the
\* share of its commits whose message conforms (0 when it has none: line 462)
CountProbes == { IntValue(t) : t \in 0..MaxCommits }

PctProbes == UNION { { Ratio(k, t) : k \in 0..t } : t \in 0..MaxCommits }

\* The scores each metric can take over its probes, per table.
commitsCountScores ==
    { scoreByThresholds(v, thresholdsCommitsCount) : v \in CountProbes }

avgFilesScores ==
    [ legacy \in BOOLEAN |->
        { scoreByThresholds(v, thresholdsAvgFilesPerCommit(legacy)) :
            v \in ProbesOf(thresholdsAvgFilesPerCommit(legacy)) } ]

avgLinesScores ==
    [ legacy \in BOOLEAN |->
        { scoreByThresholds(v, thresholdsAvgLinesPerCommit(legacy)) :
            v \in ProbesOf(thresholdsAvgLinesPerCommit(legacy)) } ]

commitStandardScores == { commitStandardScore(pct) : pct \in PctProbes }

linesModifiedScores ==
    [ legacy \in BOOLEAN |->
        { scoreByThresholds(v, thresholdsLinesModified(legacy)) :
            v \in IntProbesOf(thresholdsLinesModified(legacy)) } ]

closeTimeScores ==
    [ c \in 1..5 |->
        { scoreByThresholds(v, thresholdsCloseTimeHours(c)) :
            v \in HourProbesOf(thresholdsCloseTimeHours(c)) } ]

observationsScores ==
    [ c \in 1..5 |->
        { scoreByThresholds(v, thresholdsObservations(c)) :
            v \in IntProbesOf(thresholdsObservations(c)) } ]

AgeProbes == { 7 * SecPerDay, 7 * SecPerDay + 1, 30 * SecPerDay }

AggInit ==
    /\ ScoreIdle
    /\ ClockIdle
    /\ RunIdle
    /\ isFunctional \in BOOLEAN
    /\ prState \in {"open", "closed"}
    /\ isMerged \in IF prState = "closed" THEN BOOLEAN ELSE {FALSE}
    /\ apc = "primitives"
    /\ s_commitsCount = 0
    /\ s_avgFiles = 0
    /\ s_avgLines = 0
    /\ s_commitStandard = 0
    /\ s_linesModified = 0
    /\ complexity = 0
    /\ s_closeTime = 0
    /\ s_observations = 0
    /\ s_approvals = 0
    /\ s_declined = 0
    /\ s_branch = 0
    /\ M1 = 0
    /\ M2 = 0
    /\ M3 = 0
    /\ M4 = 0
    /\ ageSec = 0
    /\ m5Penalty = 0
    /\ maturity = 0

\* lines 465-477: the five primitive scores of the commit and size metrics
ScorePrimitives ==
    /\ apc = "primitives"
    /\ \E isLegacy \in BOOLEAN :
        /\ s_commitsCount' \in commitsCountScores
        /\ s_avgFiles' \in avgFilesScores[isLegacy]
        /\ s_avgLines' \in avgLinesScores[isLegacy]
        /\ s_commitStandard' \in commitStandardScores
        /\ s_linesModified' \in linesModifiedScores[isLegacy]
    /\ apc' = "complexity"
    /\ UNCHANGED <<isFunctional, prState, isMerged, complexity, s_closeTime,
                   s_observations, s_approvals, s_declined, s_branch,
                   M1, M2, M3, M4, ageSec, m5Penalty, maturity>>
    /\ UNCHANGED notAggVars

\* lines 479-492
Complexity ==
    /\ apc = "complexity"
    /\ complexity' = complexityOf(isFunctional, s_commitsCount, s_avgFiles, s_avgLines,
                                  s_linesModified)
    /\ apc' = "review"
    /\ UNCHANGED <<isFunctional, prState, isMerged, s_commitsCount, s_avgFiles, s_avgLines,
                   s_commitStandard, s_linesModified, s_closeTime, s_observations,
                   s_approvals, s_declined, s_branch, M1, M2, M3, M4, ageSec, m5Penalty,
                   maturity>>
    /\ UNCHANGED notAggVars

\* lines 494-504
ScoreReview ==
    /\ apc = "review"
    /\ s_closeTime' \in closeTimeScores[complexity]
    /\ s_observations' \in observationsScores[complexity]
    /\ apc' = "pr"
    /\ UNCHANGED <<isFunctional, prState, isMerged, s_commitsCount, s_avgFiles, s_avgLines,
                   s_commitStandard, s_linesModified, complexity,
                   s_approvals, s_declined, s_branch, M1, M2, M3, M4, ageSec, m5Penalty,
                   maturity>>
    /\ UNCHANGED notAggVars

\* lines 506-522
ScorePullRequest ==
    /\ apc = "pr"
    /\ \E approvalsCount \in 0..3, branchOk \in BOOLEAN :
        /\ s_approvals' = approvalsScore(approvalsCount)
        /\ s_declined' = declinedScore(declinedThisPr(prState, isMerged))
        /\ s_branch' = branchScore(branchOk)
    /\ apc' = "categories"
    /\ UNCHANGED <<isFunctional, prState, isMerged, s_commitsCount, s_avgFiles, s_avgLines,
                   s_commitStandard, s_linesModified, complexity, s_closeTime,
                   s_observations, M1, M2, M3, M4, ageSec, m5Penalty, maturity>>
    /\ UNCHANGED notAggVars

\* lines 524-545
Categories ==
    /\ apc = "categories"
    /\ M1' = weightedAvg(<< [score |-> s_commitsCount, weight |-> 30],
                            [score |-> s_avgFiles, weight |-> 20],
                            [score |-> s_avgLines, weight |-> 20],
                            [score |-> s_commitStandard, weight |-> 30] >>)
    /\ M2' = weightedAvg(<< [score |-> s_approvals, weight |-> 50],
                            [score |-> s_declined, weight |-> 20],
                            [score |-> s_branch, weight |-> 30] >>)
    /\ M3' = weightedAvg(<< [score |-> s_closeTime, weight |-> 75],
                            [score |-> s_linesModified, weight |-> 25] >>)
    /\ M4' = weightedAvg(<< [score |-> s_observations, weight |-> 100] >>)
    /\ apc' = "maturity"
    /\ UNCHANGED <<isFunctional, prState, isMerged, s_commitsCount, s_avgFiles, s_avgLines,
                   s_commitStandard, s_linesModified, complexity, s_closeTime,
                   s_observations, s_approvals, s_declined, s_branch, ageSec, m5Penalty,
                   maturity>>
    /\ UNCHANGED notAggVars

\* lines 547-556
Maturity ==
    /\ apc = "maturity"
    /\ \E age \in AgeProbes :
        /\ ageSec' = age
        /\ m5Penalty' = m5PenaltyOf(prState, age)
        /\ maturity' = maturitySum(M1, M2, M3, M4) - m5PenaltyOf(prState, age)
    /\ apc' = "done"
    /\ UNCHANGED <<isFunctional, prState, isMerged, s_commitsCount, s_avgFiles, s_avgLines,
                   s_commitStandard, s_linesModified, complexity, s_closeTime,
                   s_observations, s_approvals, s_declined, s_branch, M1, M2, M3, M4>>
    /\ UNCHANGED notAggVars

AggNext ==
    \/ ScorePrimitives
    \/ Complexity
    \/ ScoreReview
    \/ ScorePullRequest
    \/ Categories
    \/ Maturity

SpecAgg == AggInit /\ [][AggNext]_vars

\* the stages at which a value of the aggregator has been assigned
AfterPrimitives == apc \in {"complexity", "review", "pr", "categories", "maturity", "done"}
AfterComplexity == apc \in {"review", "pr", "categories", "maturity", "done"}
AfterReview == apc \in {"pr", "categories", "maturity", "done"}
AfterPullRequest == apc \in {"categories", "maturity", "done"}
AfterCategories == apc \in {"maturity", "done"}

\* C6: maturity is M1*0.25 + M2*0.15 + M3*0.35 + M4*0.25, less exactly 0.5
\* when the pull request is open and more than 7 days old, and the plain
\* weighted sum in every other case; nothing clamps the result from below.
C6_StalenessPenalty ==
    apc = "done" =>
        LET unpenalized == (25 * M1 + 15 * M2 + 35 * M3 + 25 * M4) \div 100
        IN  IF prState = "open" /\ ageSec > 7 * SecPerDay
            THEN maturity = unpenalized - Scale \div 2
            ELSE maturity = unpenalized

\* a pull request open for 30 days whose maturity ends below 1
C6_Witness ==
    /\ apc = "done"
    /\ prState = "open"
    /\ ageSec = 30 * SecPerDay
    /\ m5Penalty = Scale \div 2
    /\ maturity < Scale

\* C7: every primitive score and the complexity are integers in 1..5, each of
\* M1..M4 lies in [1, 5], and the unpenalized maturity lies in [1, 5] and is
\* exactly 5 when all four categories are 5.
C7_ScoreRanges ==
    /\ AfterPrimitives =>
          /\ s_commitsCount \in 1..5
          /\ s_avgFiles \in 1..5
          /\ s_avgLines \in 1..5
          /\ s_commitStandard \in 1..5
          /\ s_linesModified \in 1..5
    /\ AfterComplexity => complexity \in 1..5
    /\ AfterReview => s_closeTime \in 1..5 /\ s_observations \in 1..5
    /\ AfterPullRequest => s_approvals \in 1..5 /\ s_declined \in 1..5 /\ s_branch \in 1..5
    /\ AfterCategories =>
          /\ \A M \in {M1, M2, M3, M4} : Scale <= M /\ M <= 5 * Scale
          /\ Scale <= maturitySum(M1, M2, M3, M4)
          /\ maturitySum(M1, M2, M3, M4) <= 5 * Scale
          /\ (M1 = 5 * Scale /\ M2 = 5 * Scale /\ M3 = 5 * Scale /\ M4 = 5 * Scale)
                => maturitySum(M1, M2, M3, M4) = 5 * Scale
    /\ apc = "done" => maturity + m5Penalty = maturitySum(M1, M2, M3, M4)

\* all four categories at 5 and a maturity of exactly 5
C7_Witness ==
    /\ apc = "done"
    /\ M1 = 5 * Scale
    /\ M2 = 5 * Scale
    /\ M3 = 5 * Scale
    /\ M4 = 5 * Scale
    /\ m5Penalty = 0
    /\ maturity = 5 * Scale

\* C8: complexity is 5 whenever the pull request is not functional, whatever
\* the four scores are; otherwise it is the weighted average of the commits
\* count (0.20), average files (0.25), average lines (0.25) and lines modified
\* (0.30) scores, rounded to the nearest integer and clamped to [1, 5].
C8_Complexity ==
    AfterComplexity =>
        IF ~isFunctional THEN complexity = 5
        ELSE LET hundredths == 20 * s_commitsCount + 25 * s_avgFiles
                               + 25 * s_avgLines + 30 * s_linesModified
             IN  \E r \in 0..6 :
                    /\ 100 * r - 50 <= hundredths
                    /\ hundredths < 100 * r + 50
                    /\ complexity = IF r < 1 THEN 1 ELSE IF r > 5 THEN 5 ELSE r

\* a non-functional pull request whose four scores are all 1 and whose
\* complexity is 5
C8_Witness ==
    /\ AfterComplexity
    /\ ~isFunctional
    /\ s_commitsCount = 1
    /\ s_avgFiles = 1
    /\ s_avgLines = 1
    /\ s_linesModified = 1
    /\ complexity = 5

(***************************************************************************)
(* The calls of scoreByThresholds on the metrics of a pull request, lines  *)
(* 465-504: each metric with the table the code selects for it.            *)
(***************************************************************************)
\* line 465: totalCommits
CommitsCountCalls ==
    { <<v, thresholdsCommitsCount>> : v \in IntProbesOf(thresholdsCommitsCount) }

\* line 466: avgFilesPerCommit
AvgFilesCalls ==
    UNION { { <<v, thresholdsAvgFilesPerCommit(legacy)>> :
                v \in ProbesOf(thresholdsAvgFilesPerCommit(legacy)) } : legacy \in BOOLEAN }

\* line 467: avgLinesPerCommit
AvgLinesCalls ==
    UNION { { <<v, thresholdsAvgLinesPerCommit(legacy)>> :
                v \in ProbesOf(thresholdsAvgLinesPerCommit(legacy)) } : legacy \in BOOLEAN }

\* line 477: linesModified
LinesModifiedCalls ==
    UNION { { <<v, thresholdsLinesModified(legacy)>> :
                v \in IntProbesOf(thresholdsLinesModified(legacy)) } : legacy \in BOOLEAN }

\* lines 498-499: closeHours
CloseTimeCalls ==
    UNION { { <<v, thresholdsCloseTimeHours(c)>> :
                v \in HourProbesOf(thresholdsCloseTimeHours(c)) } : c \in 1..5 }

\* lines 503-504: observations
ObservationsCalls ==
    UNION { { <<v, thresholdsObservations(c)>> :
                v \in IntProbesOf(thresholdsObservations(c)) } : c \in 1..5 }

MetricCalls ==
    CommitsCountCalls \cup AvgFilesCalls \cup AvgLinesCalls \cup LinesModifiedCalls
    \cup CloseTimeCalls \cup ObservationsCalls

MetricInit ==
    /\ ClockIdle
    /\ RunIdle
    /\ AggIdle
    /\ \E call \in MetricCalls :
        /\ value = call[1]
        /\ thresholdsAsc = call[2]
    /\ score = 0
    /\ spc = "call"

SpecMetric == MetricInit /\ [][ScoreNext]_vars

\* C11: the fixed tables are exhaustive over their metrics: whatever metric is
\* scored, in either legacy mode and for every complexity, some range of the
\* selected table admits the value, so the fallback is never what scores it.
C11_TablesExhaustive ==
    spc = "done" =>
        \E i \in 1..Len(thresholdsAsc) :
            okMin(thresholdsAsc[i], value) /\ okMax(thresholdsAsc[i], value)

\* the complexity levels that select the table of the call, when it is a
\* call on the observations
ObservationsLevels == { c \in 1..5 : thresholdsAsc = thresholdsObservations(c) }

ObservationsProbes == UNION { IntProbesOf(thresholdsObservations(c)) : c \in 1..5 }

\* C13: for every observations count n and complexity levels c1 < c2 the
\* score of (n, c2) is at most the score of (n, c1); within the table of a
\* complexity level the score does not decrease as n grows, and some count
\* scores 5.
C13_ObservationsCoupling ==
    (spc = "done" /\ ObservationsLevels # {}) =>
        /\ \A c1 \in ObservationsLevels, c2 \in 1..5 :
              c1 < c2 => scoreByThresholds(value, thresholdsObservations(c2)) <= score
        /\ scoreByThresholds(IntValue(value.n + 1), thresholdsAsc) >= score
        /\ \E v \in ObservationsProbes : scoreByThresholds(v, thresholdsAsc) = 5

(***************************************************************************)
(* The run of the script: configuration, fetches, the commit loop, the     *)
(* report.  The scoring between the loop and the report is the Aggregator  *)
(* section's; here it is one step.                                         *)
(***************************************************************************)
accVars == <<ci, sumFiles, sumLines, countForAverages, commitsStandardOk>>
avgVars == <<avgFilesPerCommit, avgLinesPerCommit, commitStandardPct>>
outVars == <<reportWritten, commentPosted>>

\* the types COMMIT_REGEX lists (line 13) and the excluded ones (line 427)
ConventionalTypes ==
    {"feat", "fix", "chore", "docs", "style", "refactor", "test", "perf", "build", "ci"}
excludedTypes == {"chore", "style", "docs"}

\* The first line of a commit message, as the two regular expressions see it:
\* its leading word ("" when it has none), whether ": " follows the word and
\* its optional (scope), and whether any text follows that.
\* line 13: COMMIT_REGEX.test(msg)
commitReTest(msg) == msg.word \in ConventionalTypes /\ msg.colonSpace /\ msg.subject

\* lines 428-431: the word before ":" and a blank, or null (here "")
parseCommitType(msg) == IF msg.word # "" /\ msg.colonSpace THEN msg.word ELSE ""

\* line 444: type && excludedTypes.has(type)
exclude(msg) == parseCommitType(msg) # "" /\ parseCommitType(msg) \in excludedTypes

\* A commit of the list with what GET /commits/{sha} returns for it: the
\* number of its files and its stats.total.
ProbeCommits ==
    { [msg |-> [word |-> "feat", colonSpace |-> TRUE, subject |-> TRUE],
       files |-> 1, lines |-> 10],
      [msg |-> [word |-> "chore", colonSpace |-> TRUE, subject |-> TRUE],
       files |-> 2, lines |-> 3],
      [msg |-> [word |-> "docs", colonSpace |-> TRUE, subject |-> TRUE],
       files |-> 1, lines |-> 4],
      [msg |-> [word |-> "style", colonSpace |-> TRUE, subject |-> FALSE],
       files |-> 3, lines |-> 5],
      [msg |-> [word |-> "chore", colonSpace |-> FALSE, subject |-> TRUE],
       files |-> 2, lines |-> 7],
      [msg |-> [word |-> "", colonSpace |-> FALSE, subject |-> TRUE],
       files |-> 4, lines |-> 1] }

\* lines 438-456 with an excluded commit skipped before line 439 counts it
AccStepSkipsExcluded(acc, c) ==
    IF exclude(c.msg) THEN acc
    ELSE [commitsStandardOk |-> acc.commitsStandardOk + (IF commitReTest(c.msg) THEN 1 ELSE 0),
          sumFiles |-> acc.sumFiles + c.files,
          sumLines |-> acc.sumLines + c.lines,
          countForAverages |-> acc.countForAverages + 1]

\* lines 438-456 on the accumulators, the details fetched
AccStep(acc, c) ==
    [commitsStandardOk |-> acc.commitsStandardOk + (IF commitReTest(c.msg) THEN 1 ELSE 0),
     sumFiles |-> acc.sumFiles + (IF exclude(c.msg) THEN 0 ELSE c.files),
     sumLines |-> acc.sumLines + (IF exclude(c.msg) THEN 0 ELSE c.lines),
     countForAverages |-> acc.countForAverages + (IF exclude(c.msg) THEN 0 ELSE 1)]

\* lines 432-435
AccZero == [commitsStandardOk |-> 0, sumFiles |-> 0, sumLines |-> 0, countForAverages |-> 0]

Acc ==
    [commitsStandardOk |-> commitsStandardOk, sumFiles |-> sumFiles,
     sumLines |-> sumLines, countForAverages |-> countForAverages]

\* What fetch() answers: a success with JSON, a non-success status, or 204;
\* for a list, whether the JSON is an array and whether a rel="next" link
\* follows.
RestResponses ==
    { [status |-> st, array |-> a, next |-> nx] :
        st \in {"ok", "httpError", "noContent"}, a \in BOOLEAN, nx \in BOOLEAN }

\* What POST /graphql answers with a success status: an errors member, no
\* data or repository, no pullRequest, or a page of review threads.
GqlResponses ==
    { [status |-> st, body |-> b, hasNextPage |-> nx] :
        st \in {"ok", "httpError", "noContent"},
        b \in {"errors", "noData", "noPullRequest", "page"}, nx \in BOOLEAN }

\* line 50 never throwing
ghFetchNeverThrows(r) == FALSE

\* line 50: if (!res.ok) throw
ghFetchThrows(r) == r.status = "httpError"

\* line 78: Array.isArray(data)
IsArray(r) == r.status = "ok" /\ r.array

ListNames == <<"commits", "files", "reviews", "issueComments", "reviewComments">>
AllFetches == {"pr", "threads", "details"} \cup { ListNames[k] : k \in 1..5 }

Pages == UNION { [1..len -> ProbeCommits] : len \in 0..PerPage }

RunInit ==
    /\ ScoreIdle
    /\ ClockIdle
    /\ AggIdle
    /\ env \in [GH_TOKEN : BOOLEAN, PR_URL : {"missing", "invalid", "valid"},
                POST_COMMENT : BOOLEAN]
    /\ pc = "config"
    /\ pr = "none"
    /\ commits = <<>>
    /\ listNo = 0
    /\ pages = 0
    /\ fetched = {}
    /\ failed = "none"
    /\ ci = 0
    /\ sumFiles = 0
    /\ sumLines = 0
    /\ countForAverages = 0
    /\ commitsStandardOk = 0
    /\ avgFilesPerCommit = [n |-> 0, d |-> 1]
    /\ avgLinesPerCommit = [n |-> 0, d |-> 1]
    /\ commitStandardPct = [n |-> 0, d |-> 1]
    /\ reportWritten = FALSE
    /\ commentPosted = FALSE

\* lines 18-19 and 29-34, 337
CheckConfig ==
    /\ pc = "config"
    /\ IF ~env.GH_TOKEN \/ env.PR_URL # "valid"
       THEN pc' = "aborted" /\ failed' = "config"
       ELSE pc' = "pr" /\ failed' = failed
    /\ UNCHANGED <<env, pr, commits, listNo, pages, fetched, accVars, avgVars, outVars>>
    /\ UNCHANGED notRunVars

\* line 340
FetchPr ==
    /\ pc = "pr"
    /\ \E r \in RestResponses :
        /\ ~r.array /\ ~r.next
        /\ failed' = IF r.status = "httpError" THEN "http" ELSE failed
        /\ IF ghFetchThrows(r)
           THEN pc' = "aborted" /\ UNCHANGED <<pr, listNo, pages, fetched>>
           ELSE /\ pr' = IF r.status = "noContent" THEN "null" ELSE "object"
                /\ fetched' = fetched \cup {"pr"}
                /\ listNo' = 1
                /\ pages' = 1
                /\ pc' = "paginate"
    /\ UNCHANGED <<env, commits, accVars, avgVars, outVars>>
    /\ UNCHANGED notRunVars

\* lines 343-347, 73-83: one page of the list being fetched
PaginatePage ==
    /\ pc = "paginate"
    /\ \E r \in RestResponses, page \in Pages :
        /\ r.next => pages < MaxPages
        /\ (page # <<>>) => (listNo = 1 /\ IsArray(r))
        /\ Len(commits) + Len(page) <= MaxCommits
        /\ failed' = IF r.status = "httpError" THEN "http"
                     ELSE IF ~IsArray(r) THEN "nonArray" ELSE failed
        /\ IF ghFetchThrows(r) \/ ~IsArray(r)
           THEN pc' = "aborted" /\ UNCHANGED <<commits, listNo, pages, fetched>>
           ELSE /\ commits' = IF listNo = 1 THEN commits \o page ELSE commits
                /\ IF r.next
                   THEN pages' = pages + 1 /\ UNCHANGED <<listNo, fetched, pc>>
                   ELSE /\ fetched' = fetched \cup {ListNames[listNo]}
                        /\ pages' = 1
                        /\ listNo' = IF listNo < 5 THEN listNo + 1 ELSE listNo
                        /\ pc' = IF listNo < 5 THEN "paginate" ELSE "threads"
    /\ UNCHANGED <<env, pr, accVars, avgVars, outVars>>
    /\ UNCHANGED notRunVars

\* lines 374-404: one page of the review threads
FetchThreads ==
    /\ pc = "threads"
    /\ \E r \in GqlResponses :
        /\ r.hasNextPage => (pages < MaxPages /\ r.status = "ok" /\ r.body = "page")
        /\ failed' = IF r.status = "httpError" THEN "http"
                     ELSE IF r.status = "noContent" \/ r.body # "page" THEN "threads"
                     ELSE failed
        /\ IF ghFetchThrows(r) \/ r.status = "noContent" \/ r.body # "page"
           THEN pc' = "aborted" /\ UNCHANGED <<pages, fetched>>
           ELSE IF r.hasNextPage
                THEN pages' = pages + 1 /\ UNCHANGED <<fetched, pc>>
                ELSE pages' = 1 /\ fetched' = fetched \cup {"threads"} /\ pc' = "derive"
    /\ UNCHANGED <<env, pr, commits, listNo, accVars, avgVars, outVars>>
    /\ UNCHANGED notRunVars

\* lines 405-435: pr.additions of a null pr throws
Derive ==
    /\ pc = "derive"
    /\ pc' = IF pr = "null" THEN "aborted" ELSE "commits"
    /\ ci' = 1
    /\ sumFiles' = AccZero.sumFiles
    /\ sumLines' = AccZero.sumLines
    /\ countForAverages' = AccZero.countForAverages
    /\ commitsStandardOk' = AccZero.commitsStandardOk
    /\ UNCHANGED <<env, pr, commits, listNo, pages, fetched, failed, avgVars, outVars>>
    /\ UNCHANGED notRunVars

\* lines 437-457: one iteration of the loop over commits
CommitIter ==
    /\ pc = "commits"
    /\ ci <= Len(commits)
    /\ \E r \in RestResponses :
        /\ ~r.array /\ ~r.next
        /\ failed' = IF r.status = "httpError" THEN "http" ELSE failed
        /\ IF ghFetchThrows(r) \/ r.status = "noContent"
           THEN pc' = "aborted" /\ UNCHANGED accVars
           ELSE /\ commitsStandardOk' = AccStep(Acc, commits[ci]).commitsStandardOk
                /\ sumFiles' = AccStep(Acc, commits[ci]).sumFiles
                /\ sumLines' = AccStep(Acc, commits[ci]).sumLines
                /\ countForAverages' = AccStep(Acc, commits[ci]).countForAverages
                /\ ci' = ci + 1
                /\ pc' = pc
    /\ UNCHANGED <<env, pr, commits, listNo, pages, fetched, avgVars, outVars>>
    /\ UNCHANGED notRunVars

\* lines 459-462, after the loop
Averages ==
    /\ pc = "commits"
    /\ ci > Len(commits)
    /\ avgFilesPerCommit' = Ratio(sumFiles, countForAverages)
    /\ avgLinesPerCommit' = Ratio(sumLines, countForAverages)
    /\ commitStandardPct' = Ratio(commitsStandardOk, Len(commits))
    /\ fetched' = fetched \cup {"details"}
    /\ pc' = "score"
    /\ UNCHANGED <<env, pr, commits, listNo, pages, failed, accVars, outVars>>
    /\ UNCHANGED notRunVars

\* lines 464-604: scoring and the report's text
ScoreAndRender ==
    /\ pc = "score"
    /\ pc' = "write"
    /\ UNCHANGED <<env, pr, commits, listNo, pages, fetched, failed, accVars, avgVars, outVars>>
    /\ UNCHANGED notRunVars

\* lines 606-617
WriteReport ==
    /\ pc = "write"
    /\ reportWritten' = TRUE
    /\ pc' = IF env.POST_COMMENT THEN "post" ELSE "exit"
    /\ UNCHANGED <<env, pr, commits, listNo, pages, fetched, failed, accVars, avgVars,
                   commentPosted>>
    /\ UNCHANGED notRunVars

\* lines 617-622
PostComment ==
    /\ pc = "post"
    /\ \E r \in RestResponses :
        /\ ~r.array /\ ~r.next
        /\ IF ghFetchThrows(r)
           THEN pc' = "aborted" /\ UNCHANGED commentPosted
           ELSE pc' = "exit" /\ commentPosted' = TRUE
    /\ UNCHANGED <<env, pr, commits, listNo, pages, fetched, failed, accVars, avgVars,
                   reportWritten>>
    /\ UNCHANGED notRunVars

Next ==
    \/ CheckConfig
    \/ FetchPr
    \/ PaginatePage
    \/ FetchThreads
    \/ Derive
    \/ CommitIter
    \/ Averages
    \/ ScoreAndRender
    \/ WriteReport
    \/ PostComment

Init == RunInit

Spec == Init /\ [][Next]_vars

\* C9: a missing configuration value or a failed data fetch (non-success
\* response, non-array page, malformed thread-query response) ends the run at
\* that step with no report written or posted, and a report is written only
\* after every fetch has succeeded.
C9_FailFast ==
    /\ failed # "none" => (pc = "aborted" /\ ~reportWritten /\ ~commentPosted)
    /\ reportWritten => (failed = "none" /\ fetched = AllFetches)

C9_Witness ==
    /\ pc = "aborted"
    /\ failed = "threads"
    /\ fetched = {"pr"} \cup { ListNames[k] : k \in 1..5 }
    /\ Len(commits) > 0
    /\ ~reportWritten

\* the commit loop run over a list from the first commit to the last
RECURSIVE AccumulateFrom(_, _, _)
AccumulateFrom(list, k, acc) ==
    IF k > Len(list) THEN acc ELSE AccumulateFrom(list, k + 1, AccStep(acc, list[k]))

\* a commit whose type is chore, style or docs
HasExcludedType(c) == c.msg.colonSpace /\ c.msg.word \in {"chore", "style", "docs"}
Eligible == { k \in 1..Len(commits) : ~HasExcludedType(commits[k]) }

\* the sum of f[k] over the k in S
RECURSIVE SumOver(_, _)
SumOver(S, f) ==
    IF S = {} THEN 0
    ELSE LET k == CHOOSE x \in S : TRUE IN f[k] + SumOver(S \ {k}, f)

FilesOf == [k \in 1..Len(commits) |-> commits[k].files]
LinesOf == [k \in 1..Len(commits) |-> commits[k].lines]

\* C10: once the loop has run, the accumulators are what the loop gives for
\* every permutation of the commit list; commits of type chore, style or docs
\* count toward the conformance count but add nothing to sumFiles, sumLines
\* or the eligible count; both averages are 0 when no commit is eligible.
C10_AccumulationOrderIndependent ==
    pc \in {"score", "write", "post", "exit"} =>
        /\ \A p \in Permutations(1..Len(commits)) :
              AccumulateFrom([k \in 1..Len(commits) |-> commits[p[k]]], 1, AccZero) = Acc
        /\ commitsStandardOk =
              Cardinality({ k \in 1..Len(commits) : commitReTest(commits[k].msg) })
        /\ countForAverages = Cardinality(Eligible)
        /\ sumFiles = SumOver(Eligible, FilesOf)
        /\ sumLines = SumOver(Eligible, LinesOf)
        /\ countForAverages = 0 => (avgFilesPerCommit.n = 0 /\ avgLinesPerCommit.n = 0)
        /\ countForAverages > 0 =>
              /\ avgFilesPerCommit = [n |-> sumFiles, d |-> countForAverages]
              /\ avgLinesPerCommit = [n |-> sumLines, d |-> countForAverages]

C10_Witness ==
    /\ pc = "exit"
    /\ Len(commits) = 3
    /\ HasExcludedType(commits[1])
    /\ commitReTest(commits[1].msg)
    /\ ~HasExcludedType(commits[2])
    /\ ~HasExcludedType(commits[3])
    /\ commits[2].files # commits[3].files
    /\ commitsStandardOk = 2
    /\ countForAverages = 2
    /\ sumFiles = 3

====
